---- MODULE Spec2Model ----
(***************************************************************************)
(* Verbum6-1: document question answering.                                 *)
(*                                                                         *)
(*   Spec      TextChunker.split_into_chunks      (src/text_chunker.py)    *)
(*   SpecRank  QuestionAnswerer.find_relevant_chunks                        *)
(*   SpecRankStable  the same, on a build whose argsort is stable           *)
(*   SpecFallback  QuestionAnswerer.extract_fallback_answer               *)
(*   SpecQA    QuestionAnswerer.answer_question   (src/question_answerer.py)*)
(*   SpecSession  sequences of answer_question calls on one instance      *)
(*   SpecApp   DocumentProcessor and the request handlers (src/app)        *)
(*   SpecPipe  split_into_chunks, then DocumentEmbedder.embed_chunks        *)
(*   SpecSem   SemanticProcessor._get_folder_embedding                      *)
(*                                                                         *)
(* Texts are sequences of one-character strings.  Python offsets are       *)
(* 0-based and half-open; the sequences here are 1-based, so text[i-1] of  *)
(* the source is t[i] here and text[a:b] is SubSeq(t, a+1, b).             *)
(*                                                                         *)
(* Chunks, questions and answers of the question answerer are strings.     *)
(* What str and re do to them (lower, split, strip, replace, in, re.sub,   *)
(* re.search with the patterns of the source) is tabulated for a closed    *)
(* catalogue of strings.  Scores are exact: a cosine similarity is held in *)
(* tenths, a confidence in hundredths.                                     *)
(***************************************************************************)
EXTENDS Integers, Sequences, FiniteSets, TLC

VARIABLES
    \* ---- TextChunker (src/text_chunker.py) ----
    chunk_size,     \* self.chunk_size
    overlap,        \* self.overlap
    max_chunks,     \* self.max_chunks
    batch_size,     \* self.batch_size
    stats,          \* self._stats
    text,           \* argument of the running split_into_chunks call
    cpc,            \* position in split_into_chunks
    starts,         \* local: starts
    batch_idx,      \* local: batch_idx
    chunks,         \* local: chunks
    result,         \* value returned (cpc = "done") or exception (cpc = "raised")
    \* ---- QuestionAnswerer (src/question_answerer.py) ----
    stable_sort,    \* whether this build's np.argsort keeps equal scores in index order
    focus_patterns, \* self.focus_patterns
    analyzed,       \* hasattr(self, '_analyzed')
    analyze_calls,  \* runs of analyze_document on this instance
    had_chunks,     \* an answer_question call on this instance had a non-empty chunk list
    question,       \* argument: question
    doc,            \* argument: chunks
    sims,           \* cosine_similarity(question_embedding, chunk_embeddings)[0], in tenths
    top_k,          \* argument of find_relevant_chunks: top_k
    qpc,            \* position in answer_question / find_relevant_chunks
    scores,         \* local: scores after the keyword boost
    order,          \* local: top_indices (1-based)
    relevant,       \* local: relevant_chunks / selected_chunks
    context,        \* local: context
    model_result,   \* local: result of self.qa_pipeline
    qa_calls,       \* calls of self.qa_pipeline during the running call
    fb_calls,       \* calls of extract_fallback_answer during the running call
    ret,            \* value returned (qpc = "done") or exception (qpc = "raised")
    prev_order,     \* top_indices of the previous find_relevant_chunks call
    added,          \* the chunk a keyword was added to since, and the keyword
    \* ---- DocumentProcessor and the request handlers (src/app) ----
    has_key,        \* os.getenv('OPENAI_API_KEY') is set
    fail_at,        \* the embeddings.create call of the request that fails (0: none)
    chat_ok,        \* chat.completions.create succeeds
    fields_ok,      \* the /ask request carries 'question' and 'document'
    path_exists,    \* os.path.exists(doc_path)
    is_pdf,         \* doc_path.lower().endswith('.pdf')
    doc_text,       \* the text fitz extracts from the document
    tokens,         \* len(self.tokenizer.encode(paragraph)), per paragraph
    query,          \* the query of the request
    texts,          \* argument of a direct embed_text call
    apc,            \* position in the running operation
    app_ret,        \* what the core operation returned or raised
    http,           \* the handler's reply
    chunk_embeddings, \* DocumentEmbedder.embed_chunks(chunks) of the pipeline
    \* ---- SemanticProcessor (src/app/core/semantic_processor.py) ----
    embeddings_cache, \* self.embeddings_cache
    folder_path,    \* argument: folder_path
    summary_ok,     \* _generate_folder_summary gives a non-empty summary
    embedding_ok,   \* the embeddings.create request succeeds
    spc,            \* position in _get_folder_embedding
    sem_ret         \* value returned by _get_folder_embedding

chunkerVars == <<chunk_size, overlap, max_chunks, batch_size, stats, text, cpc,
                 starts, batch_idx, chunks, result>>

qaVars == <<stable_sort, focus_patterns, analyzed, analyze_calls, had_chunks, question, doc, sims, top_k, qpc, scores,
            order, relevant, context, model_result, qa_calls, fb_calls, ret,
            prev_order, added>>

appVars == <<has_key, fail_at, chat_ok, fields_ok, path_exists, is_pdf, doc_text, tokens,
             query, texts, apc, app_ret, http, chunk_embeddings>>

semVars == <<embeddings_cache, folder_path, summary_ok, embedding_ok, spc, sem_ret>>

vars == <<chunkerVars, qaVars, appVars, semVars>>

----------------------------------------------------------------------------
(* Generic helpers *)

Min(a, b) == IF a < b THEN a ELSE b

Max(a, b) == IF a > b THEN a ELSE b

SetMax(S) == CHOOSE x \in S : \A y \in S : y <= x

SetMin(S) == CHOOSE x \in S : \A y \in S : x <= y

\* Python s[a:b] for 0 <= a and 0 <= b (the end is clamped to len(s)).
PySlice(s, a, b) == SubSeq(s, a + 1, Min(b, Len(s)))

----------------------------------------------------------------------------
(* Bounds and the input domain of the chunker *)

\* largest small max_chunks tried (besides the default)
MaxMaxChunks == 2

\* largest batch_size tried
MaxBatch == 2

\* length of the whitespace run placed in a text
GapLen == 12

\* text lengths, spacing of '.' characters, start of the whitespace run
TextLens == {0, 99, 130, 250, 330}

Periods == {0, 35, 80}

GapStarts == {-1, 0, 105, 190, 240}

\* a newline every NewlineEvery characters
NewlineEvery == 97

ChunkSizes == {100, 130, 160}

Overlaps == {0, 20, 130, 170}

\* defaults of TextChunker.__init__
DefaultMaxChunks == 1000

MkText(n, period, gap) ==
    [i \in 1..n |->
        IF gap >= 0 /\ i > gap /\ i <= gap + GapLen THEN " "
        ELSE IF period > 0 /\ i % period = 0 THEN "."
        ELSE IF i % NewlineEvery = 0 THEN "\n"
        ELSE "a"]

Texts == {MkText(n, p, g) : n \in TextLens, p \in Periods, g \in GapStarts}

----------------------------------------------------------------------------
(* TextChunker *)

\* the characters find_boundary looks for: '.!?\n'
IsBoundary(c) == c \in {".", "!", "?", "\n"}

\* the characters str.strip() removes
IsSpace(c) == c \in {" ", "\n", "\t"}

\* str.strip()
Strip(s) ==
    LET keep == {i \in 1..Len(s) : ~IsSpace(s[i])}
    IN  IF keep = {} THEN <<>> ELSE SubSeq(s, SetMin(keep), SetMax(keep))

\* the boundary search window of find_boundary
BoundaryWindow == 50

\* minimum length of a kept chunk
MinChunkLen == 100

\* find_boundary: for i in range(end, max(end - 50, start), -1)
find_boundary(t, end, start) ==
    LET lo   == Max(end - BoundaryWindow, start)
        cand == {i \in (lo + 1)..end : IsBoundary(t[i])}
    IN  IF cand = {} THEN end ELSE SetMax(cand)

\* a keep test that forgets the minimum length
KeepNonEmpty(chunk) == chunk # <<>>

\* a test that keeps every chunk
KeepAny(chunk) == TRUE

\* the test of process_batch that keeps a chunk
KeepChunk(chunk) == chunk # <<>> /\ Len(chunk) >= MinChunkLen

\* the naive end of a chunk
NaiveEnd(start, text_length) == Min(start + chunk_size, text_length)

\* process_batch: the kept (chunk, end) pairs of the batch, in order
RECURSIVE BatchLoop(_, _, _, _)
BatchLoop(text_slice, start_positions, text_length, k) ==
    IF k > Len(start_positions) THEN <<>>
    ELSE LET start == start_positions[k]
             rest  == BatchLoop(text_slice, start_positions, text_length, k + 1)
         IN  IF start >= text_length THEN rest
             ELSE LET end0  == NaiveEnd(start, text_length)
                      end   == IF end0 < text_length
                               THEN find_boundary(text_slice, end0, start)
                               ELSE end0
                      chunk == Strip(PySlice(text_slice, start, end))
                  IN  IF KeepChunk(chunk)
                      THEN <<<<chunk, end>>>> \o rest
                      ELSE rest

\* batch_end = min(max(start_positions) + self.chunk_size, text_length)
BatchEnd(start_positions, text_length) ==
    Min(SetMax({start_positions[k] : k \in 1..Len(start_positions)}) + chunk_size,
        text_length)

process_batch(t, start_positions, text_length) ==
    LET batch_end  == BatchEnd(start_positions, text_length)
        text_slice == PySlice(t, 0, batch_end)
    IN  BatchLoop(text_slice, start_positions, text_length, 1)

\* list(range(0, text_length, step)) for step # 0
PyRange0(stop, step) ==
    IF step < 0 \/ stop <= 0 THEN <<>>
    ELSE [k \in 1..((stop + step - 1) \div step) |-> (k - 1) * step]

\* a batch slice that runs one start into the next batch
BatchStartsOverrun(ss, idx) == PySlice(ss, idx, idx + batch_size + 1)

\* batch_starts = starts[batch_idx:batch_idx + self.batch_size]
BatchStarts(ss, idx) == PySlice(ss, idx, idx + batch_size)

\* a truncation that keeps the last mc chunks
ReturnLast(cs, mc) == SubSeq(cs, Max(1, Len(cs) - mc + 1), Len(cs))

\* a return without the final truncation
ReturnAll(cs, mc) == cs

\* the value split_into_chunks returns: chunks[:self.max_chunks]
ReturnValue(cs, mc) == PySlice(cs, 0, mc)

\* the early-stop test after a batch
LimitReached(cs, mc) == Len(cs) >= mc

\* the batch loop of split_into_chunks from batch_idx = idx on, with cs the
\* chunks collected so far, on an instance whose max_chunks is mc
RECURSIVE SplitLoop(_, _, _, _, _)
SplitLoop(t, ss, idx, cs, mc) ==
    IF idx >= Len(ss) THEN cs
    ELSE LET batch_results == process_batch(t, BatchStarts(ss, idx), Len(t))
             cs2 == cs \o [k \in 1..Len(batch_results) |-> batch_results[k][1]]
         IN  IF LimitReached(cs2, mc) THEN cs2
             ELSE SplitLoop(t, ss, idx + batch_size, cs2, mc)

\* what split_into_chunks(t) returns on an instance that differs from this one
\* in max_chunks = mc only (for chunk_size # overlap)
split_into_chunks(t, mc) ==
    ReturnValue(SplitLoop(t, PyRange0(Len(t), chunk_size - overlap), 0, <<>>, mc), mc)

\* TextChunker(chunk_size, overlap, max_chunks, batch_size)
ChunkerInit ==
    /\ chunk_size \in ChunkSizes
    /\ overlap \in Overlaps
    /\ max_chunks \in (0..MaxMaxChunks) \cup {DefaultMaxChunks}
    /\ batch_size \in 1..MaxBatch
    /\ stats = [total_chars |-> 0, total_chunks |-> 0, processing_time |-> 0]
    /\ text \in Texts
    /\ cpc = "call"
    /\ starts = <<>>
    /\ batch_idx = 0
    /\ chunks = <<>>
    /\ result = "none"

\* split_into_chunks up to the loop: range() raises ValueError for a zero step
SplitStart ==
    /\ cpc = "call"
    /\ LET step == chunk_size - overlap
       IN  IF step = 0
           THEN /\ cpc' = "raised"
                /\ result' = "ValueError"
                /\ UNCHANGED starts
           ELSE /\ starts' = PyRange0(Len(text), step)
                /\ cpc' = "loop"
                /\ UNCHANGED result
    /\ chunks' = <<>>
    /\ batch_idx' = 0
    /\ UNCHANGED <<qaVars, appVars, semVars, chunk_size, overlap, max_chunks, batch_size, stats, text>>

\* one iteration of the batch loop
SplitBatch ==
    /\ cpc = "loop"
    /\ batch_idx < Len(starts)
    /\ LET batch_starts  == BatchStarts(starts, batch_idx)
           batch_results == process_batch(text, batch_starts, Len(text))
           cs == chunks \o [k \in 1..Len(batch_results) |-> batch_results[k][1]]
       IN  /\ chunks' = cs
           /\ IF LimitReached(cs, max_chunks)
              THEN cpc' = "return" /\ UNCHANGED batch_idx
              ELSE cpc' = "loop" /\ batch_idx' = batch_idx + batch_size
    /\ UNCHANGED <<qaVars, appVars, semVars, chunk_size, overlap, max_chunks, batch_size, stats, text,
                   starts, result>>

\* the loop runs out of batches
SplitLoopEnd ==
    /\ cpc = "loop"
    /\ batch_idx >= Len(starts)
    /\ cpc' = "return"
    /\ UNCHANGED <<qaVars, appVars, semVars, chunk_size, overlap, max_chunks, batch_size, stats, text,
                   starts, batch_idx, chunks, result>>

\* return chunks[:self.max_chunks]
SplitReturn ==
    /\ cpc = "return"
    /\ result' = ReturnValue(chunks, max_chunks)
    /\ cpc' = "done"
    /\ UNCHANGED <<qaVars, appVars, semVars, chunk_size, overlap, max_chunks, batch_size, stats, text,
                   starts, batch_idx, chunks>>

\* the next call of split_into_chunks on the same instance
SplitAgain ==
    /\ cpc \in {"done", "raised"}
    /\ text' \in Texts
    /\ cpc' = "call"
    /\ starts' = <<>>
    /\ batch_idx' = 0
    /\ chunks' = <<>>
    /\ result' = "none"
    /\ UNCHANGED <<qaVars, appVars, semVars, chunk_size, overlap, max_chunks, batch_size, stats>>

ChunkerNext ==
    \/ SplitStart
    \/ SplitBatch
    \/ SplitLoopEnd
    \/ SplitReturn
    \/ SplitAgain

----------------------------------------------------------------------------
(* The string catalogue of the question answerer: what Python computes *)

\* the raw chunk texts documents are made of
RawTexts ==
  {"Build Something Great!\nFifty Best Tips for High-Tech Startups",
   "by David Overhauser and Resve Saleh",
   "This handbook is a guide to successful business planning.",
   "The main focus is cats & dogs."}

\* the questions asked
Questions ==
  {"What is the main focus of this book?",
   "Who are the authors of this book?",
   "Who is the main author?",
   "How many chapters are there?"}

\* the answers the extractive QA model may give
ModelAnswers == {"", " ", "fifty tips"}

\* question.split()
SplitTable ==
  {
    <<"What is the main focus of this book?", <<"What", "is", "the", "main", "focus", "of", "this", "book?">>>>,
    <<"Who are the authors of this book?", <<"Who", "are", "the", "authors", "of", "this", "book?">>>>,
    <<"Who is the main author?", <<"Who", "is", "the", "main", "author?">>>>,
    <<"How many chapters are there?", <<"How", "many", "chapters", "are", "there?">>>>
  }

\* str.lower()
LowerTable ==
  {
    <<"Build Something Great!\nFifty Best Tips for High-Tech Startups", "build something great!\nfifty best tips for high-tech startups">>,
    <<"Build Something Great!\nFifty Best Tips for High-Tech Startups author?", "build something great!\nfifty best tips for high-tech startups author?">>,
    <<"Build Something Great!\nFifty Best Tips for High-Tech Startups authors", "build something great!\nfifty best tips for high-tech startups authors">>,
    <<"Build Something Great!\nFifty Best Tips for High-Tech Startups book?", "build something great!\nfifty best tips for high-tech startups book?">>,
    <<"Build Something Great!\nFifty Best Tips for High-Tech Startups chapters", "build something great!\nfifty best tips for high-tech startups chapters">>,
    <<"Build Something Great!\nFifty Best Tips for High-Tech Startups focus", "build something great!\nfifty best tips for high-tech startups focus">>,
    <<"Build Something Great!\nFifty Best Tips for High-Tech Startups main", "build something great!\nfifty best tips for high-tech startups main">>,
    <<"Build Something Great!\nFifty Best Tips for High-Tech Startups many", "build something great!\nfifty best tips for high-tech startups many">>,
    <<"Build Something Great!\nFifty Best Tips for High-Tech Startups there?", "build something great!\nfifty best tips for high-tech startups there?">>,
    <<"Build Something Great!\nFifty Best Tips for High-Tech Startups this", "build something great!\nfifty best tips for high-tech startups this">>,
    <<"Build Something Great!\nFifty Best Tips for High-Tech Startups what", "build something great!\nfifty best tips for high-tech startups what">>,
    <<"Cats dogs", "cats dogs">>,
    <<"High-Tech Startups", "high-tech startups">>,
    <<"How", "how">>,
    <<"How many chapters are there?", "how many chapters are there?">>,
    <<"Successful business planning", "successful business planning">>,
    <<"The main focus is cats & dogs.", "the main focus is cats & dogs.">>,
    <<"The main focus is cats & dogs. author?", "the main focus is cats & dogs. author?">>,
    <<"The main focus is cats & dogs. authors", "the main focus is cats & dogs. authors">>,
    <<"The main focus is cats & dogs. book?", "the main focus is cats & dogs. book?">>,
    <<"The main focus is cats & dogs. chapters", "the main focus is cats & dogs. chapters">>,
    <<"The main focus is cats & dogs. many", "the main focus is cats & dogs. many">>,
    <<"The main focus is cats & dogs. there?", "the main focus is cats & dogs. there?">>,
    <<"The main focus is cats & dogs. this", "the main focus is cats & dogs. this">>,
    <<"The main focus is cats & dogs. what", "the main focus is cats & dogs. what">>,
    <<"This handbook is a guide to successful business planning.", "this handbook is a guide to successful business planning.">>,
    <<"This handbook is a guide to successful business planning. author?", "this handbook is a guide to successful business planning. author?">>,
    <<"This handbook is a guide to successful business planning. authors", "this handbook is a guide to successful business planning. authors">>,
    <<"This handbook is a guide to successful business planning. book?", "this handbook is a guide to successful business planning. book?">>,
    <<"This handbook is a guide to successful business planning. chapters", "this handbook is a guide to successful business planning. chapters">>,
    <<"This handbook is a guide to successful business planning. focus", "this handbook is a guide to successful business planning. focus">>,
    <<"This handbook is a guide to successful business planning. main", "this handbook is a guide to successful business planning. main">>,
    <<"This handbook is a guide to successful business planning. many", "this handbook is a guide to successful business planning. many">>,
    <<"This handbook is a guide to successful business planning. there?", "this handbook is a guide to successful business planning. there?">>,
    <<"This handbook is a guide to successful business planning. what", "this handbook is a guide to successful business planning. what">>,
    <<"What", "what">>,
    <<"What is the main focus of this book?", "what is the main focus of this book?">>,
    <<"Who", "who">>,
    <<"Who are the authors of this book?", "who are the authors of this book?">>,
    <<"Who is the main author?", "who is the main author?">>,
    <<"are", "are">>,
    <<"author?", "author?">>,
    <<"authors", "authors">>,
    <<"book?", "book?">>,
    <<"by David Overhauser and Resve Saleh", "by david overhauser and resve saleh">>,
    <<"by David Overhauser and Resve Saleh author?", "by david overhauser and resve saleh author?">>,
    <<"by David Overhauser and Resve Saleh authors", "by david overhauser and resve saleh authors">>,
    <<"by David Overhauser and Resve Saleh book?", "by david overhauser and resve saleh book?">>,
    <<"by David Overhauser and Resve Saleh chapters", "by david overhauser and resve saleh chapters">>,
    <<"by David Overhauser and Resve Saleh focus", "by david overhauser and resve saleh focus">>,
    <<"by David Overhauser and Resve Saleh main", "by david overhauser and resve saleh main">>,
    <<"by David Overhauser and Resve Saleh many", "by david overhauser and resve saleh many">>,
    <<"by David Overhauser and Resve Saleh there?", "by david overhauser and resve saleh there?">>,
    <<"by David Overhauser and Resve Saleh this", "by david overhauser and resve saleh this">>,
    <<"by David Overhauser and Resve Saleh what", "by david overhauser and resve saleh what">>,
    <<"chapters", "chapters">>,
    <<"focus", "focus">>,
    <<"is", "is">>,
    <<"main", "main">>,
    <<"many", "many">>,
    <<"of", "of">>,
    <<"the", "the">>,
    <<"there?", "there?">>,
    <<"this", "this">>
  }

\* needle in haystack, for the lowercased strings above
ContainsTable ==
  {
    <<"author", "who are the authors of this book?">>,
    <<"author", "who is the main author?">>,
    <<"author?", "build something great!\nfifty best tips for high-tech startups author?">>,
    <<"author?", "by david overhauser and resve saleh author?">>,
    <<"author?", "the main focus is cats & dogs. author?">>,
    <<"author?", "this handbook is a guide to successful business planning. author?">>,
    <<"authors", "build something great!\nfifty best tips for high-tech startups authors">>,
    <<"authors", "by david overhauser and resve saleh authors">>,
    <<"authors", "the main focus is cats & dogs. authors">>,
    <<"authors", "this handbook is a guide to successful business planning. authors">>,
    <<"book?", "build something great!\nfifty best tips for high-tech startups book?">>,
    <<"book?", "by david overhauser and resve saleh book?">>,
    <<"book?", "the main focus is cats & dogs. book?">>,
    <<"book?", "this handbook is a guide to successful business planning. book?">>,
    <<"business", "successful business planning">>,
    <<"chapters", "build something great!\nfifty best tips for high-tech startups chapters">>,
    <<"chapters", "by david overhauser and resve saleh chapters">>,
    <<"chapters", "the main focus is cats & dogs. chapters">>,
    <<"chapters", "this handbook is a guide to successful business planning. chapters">>,
    <<"focus", "build something great!\nfifty best tips for high-tech startups focus">>,
    <<"focus", "by david overhauser and resve saleh focus">>,
    <<"focus", "the main focus is cats & dogs.">>,
    <<"focus", "the main focus is cats & dogs. author?">>,
    <<"focus", "the main focus is cats & dogs. authors">>,
    <<"focus", "the main focus is cats & dogs. book?">>,
    <<"focus", "the main focus is cats & dogs. chapters">>,
    <<"focus", "the main focus is cats & dogs. many">>,
    <<"focus", "the main focus is cats & dogs. there?">>,
    <<"focus", "the main focus is cats & dogs. this">>,
    <<"focus", "the main focus is cats & dogs. what">>,
    <<"focus", "this handbook is a guide to successful business planning. focus">>,
    <<"focus", "what is the main focus of this book?">>,
    <<"main", "build something great!\nfifty best tips for high-tech startups main">>,
    <<"main", "by david overhauser and resve saleh main">>,
    <<"main", "the main focus is cats & dogs.">>,
    <<"main", "the main focus is cats & dogs. author?">>,
    <<"main", "the main focus is cats & dogs. authors">>,
    <<"main", "the main focus is cats & dogs. book?">>,
    <<"main", "the main focus is cats & dogs. chapters">>,
    <<"main", "the main focus is cats & dogs. many">>,
    <<"main", "the main focus is cats & dogs. there?">>,
    <<"main", "the main focus is cats & dogs. this">>,
    <<"main", "the main focus is cats & dogs. what">>,
    <<"main", "this handbook is a guide to successful business planning. main">>,
    <<"main", "what is the main focus of this book?">>,
    <<"main", "who is the main author?">>,
    <<"many", "build something great!\nfifty best tips for high-tech startups many">>,
    <<"many", "by david overhauser and resve saleh many">>,
    <<"many", "the main focus is cats & dogs. many">>,
    <<"many", "this handbook is a guide to successful business planning. many">>,
    <<"startup", "high-tech startups">>,
    <<"there?", "build something great!\nfifty best tips for high-tech startups there?">>,
    <<"there?", "by david overhauser and resve saleh there?">>,
    <<"there?", "the main focus is cats & dogs. there?">>,
    <<"there?", "this handbook is a guide to successful business planning. there?">>,
    <<"this", "build something great!\nfifty best tips for high-tech startups this">>,
    <<"this", "by david overhauser and resve saleh this">>,
    <<"this", "the main focus is cats & dogs. this">>,
    <<"this", "this handbook is a guide to successful business planning.">>,
    <<"this", "this handbook is a guide to successful business planning. author?">>,
    <<"this", "this handbook is a guide to successful business planning. authors">>,
    <<"this", "this handbook is a guide to successful business planning. book?">>,
    <<"this", "this handbook is a guide to successful business planning. chapters">>,
    <<"this", "this handbook is a guide to successful business planning. focus">>,
    <<"this", "this handbook is a guide to successful business planning. main">>,
    <<"this", "this handbook is a guide to successful business planning. many">>,
    <<"this", "this handbook is a guide to successful business planning. there?">>,
    <<"this", "this handbook is a guide to successful business planning. what">>,
    <<"what", "build something great!\nfifty best tips for high-tech startups what">>,
    <<"what", "by david overhauser and resve saleh what">>,
    <<"what", "the main focus is cats & dogs. what">>,
    <<"what", "this handbook is a guide to successful business planning. what">>,
    <<"who", "who are the authors of this book?">>,
    <<"who", "who is the main author?">>
  }

\* preprocess_chunk: re.sub(r'\s+', ' ', chunk).strip(), then re.sub(r'[^a-zA-Z0-9\s.,!?-]', '', chunk)
CleanTable ==
  {
    <<"Build Something Great!\nFifty Best Tips for High-Tech Startups", "Build Something Great! Fifty Best Tips for High-Tech Startups">>,
    <<"Build Something Great!\nFifty Best Tips for High-Tech Startups author?", "Build Something Great! Fifty Best Tips for High-Tech Startups author?">>,
    <<"Build Something Great!\nFifty Best Tips for High-Tech Startups authors", "Build Something Great! Fifty Best Tips for High-Tech Startups authors">>,
    <<"Build Something Great!\nFifty Best Tips for High-Tech Startups book?", "Build Something Great! Fifty Best Tips for High-Tech Startups book?">>,
    <<"Build Something Great!\nFifty Best Tips for High-Tech Startups chapters", "Build Something Great! Fifty Best Tips for High-Tech Startups chapters">>,
    <<"Build Something Great!\nFifty Best Tips for High-Tech Startups focus", "Build Something Great! Fifty Best Tips for High-Tech Startups focus">>,
    <<"Build Something Great!\nFifty Best Tips for High-Tech Startups main", "Build Something Great! Fifty Best Tips for High-Tech Startups main">>,
    <<"Build Something Great!\nFifty Best Tips for High-Tech Startups many", "Build Something Great! Fifty Best Tips for High-Tech Startups many">>,
    <<"Build Something Great!\nFifty Best Tips for High-Tech Startups there?", "Build Something Great! Fifty Best Tips for High-Tech Startups there?">>,
    <<"Build Something Great!\nFifty Best Tips for High-Tech Startups this", "Build Something Great! Fifty Best Tips for High-Tech Startups this">>,
    <<"Build Something Great!\nFifty Best Tips for High-Tech Startups what", "Build Something Great! Fifty Best Tips for High-Tech Startups what">>,
    <<"Build Something Great! Fifty Best Tips for High-Tech Startups", "Build Something Great! Fifty Best Tips for High-Tech Startups">>,
    <<"The main focus is cats  dogs.", "The main focus is cats dogs.">>,
    <<"The main focus is cats & dogs.", "The main focus is cats  dogs.">>,
    <<"The main focus is cats & dogs. author?", "The main focus is cats  dogs. author?">>,
    <<"The main focus is cats & dogs. authors", "The main focus is cats  dogs. authors">>,
    <<"The main focus is cats & dogs. book?", "The main focus is cats  dogs. book?">>,
    <<"The main focus is cats & dogs. chapters", "The main focus is cats  dogs. chapters">>,
    <<"The main focus is cats & dogs. many", "The main focus is cats  dogs. many">>,
    <<"The main focus is cats & dogs. there?", "The main focus is cats  dogs. there?">>,
    <<"The main focus is cats & dogs. this", "The main focus is cats  dogs. this">>,
    <<"The main focus is cats & dogs. what", "The main focus is cats  dogs. what">>,
    <<"The main focus is cats dogs.", "The main focus is cats dogs.">>,
    <<"This handbook is a guide to successful business planning.", "This handbook is a guide to successful business planning.">>,
    <<"This handbook is a guide to successful business planning. author?", "This handbook is a guide to successful business planning. author?">>,
    <<"This handbook is a guide to successful business planning. authors", "This handbook is a guide to successful business planning. authors">>,
    <<"This handbook is a guide to successful business planning. book?", "This handbook is a guide to successful business planning. book?">>,
    <<"This handbook is a guide to successful business planning. chapters", "This handbook is a guide to successful business planning. chapters">>,
    <<"This handbook is a guide to successful business planning. focus", "This handbook is a guide to successful business planning. focus">>,
    <<"This handbook is a guide to successful business planning. main", "This handbook is a guide to successful business planning. main">>,
    <<"This handbook is a guide to successful business planning. many", "This handbook is a guide to successful business planning. many">>,
    <<"This handbook is a guide to successful business planning. there?", "This handbook is a guide to successful business planning. there?">>,
    <<"This handbook is a guide to successful business planning. what", "This handbook is a guide to successful business planning. what">>,
    <<"by David Overhauser and Resve Saleh", "by David Overhauser and Resve Saleh">>,
    <<"by David Overhauser and Resve Saleh author?", "by David Overhauser and Resve Saleh author?">>,
    <<"by David Overhauser and Resve Saleh authors", "by David Overhauser and Resve Saleh authors">>,
    <<"by David Overhauser and Resve Saleh book?", "by David Overhauser and Resve Saleh book?">>,
    <<"by David Overhauser and Resve Saleh chapters", "by David Overhauser and Resve Saleh chapters">>,
    <<"by David Overhauser and Resve Saleh focus", "by David Overhauser and Resve Saleh focus">>,
    <<"by David Overhauser and Resve Saleh main", "by David Overhauser and Resve Saleh main">>,
    <<"by David Overhauser and Resve Saleh many", "by David Overhauser and Resve Saleh many">>,
    <<"by David Overhauser and Resve Saleh there?", "by David Overhauser and Resve Saleh there?">>,
    <<"by David Overhauser and Resve Saleh this", "by David Overhauser and Resve Saleh this">>,
    <<"by David Overhauser and Resve Saleh what", "by David Overhauser and Resve Saleh what">>
  }

\* re.search(focus_patterns[r], text, re.IGNORECASE): <<r, text, match.group(1).strip()>>
FocusSearchTable ==
  {
    <<1, "Build Something Great!\nFifty Best Tips for High-Tech Startups", "High-Tech Startups">>,
    <<2, "Build Something Great!\nFifty Best Tips for High-Tech Startups", "High-Tech Startups">>,
    <<8, "Build Something Great!\nFifty Best Tips for High-Tech Startups", "High-Tech Startups">>,
    <<1, "Build Something Great! Fifty Best Tips for High-Tech Startups", "High-Tech Startups">>,
    <<2, "Build Something Great! Fifty Best Tips for High-Tech Startups", "High-Tech Startups">>,
    <<8, "Build Something Great! Fifty Best Tips for High-Tech Startups", "High-Tech Startups">>,
    <<6, "The main focus is cats  dogs.", "cats  dogs">>,
    <<6, "The main focus is cats & dogs.", "cats">>,
    <<6, "The main focus is cats dogs.", "cats dogs">>,
    <<4, "This handbook is a guide to successful business planning.", "successful business planning">>,
    <<9, "This handbook is a guide to successful business planning.", "successful business planning">>
  }

\* re.search(r'Build Something Great!\s+Fifty Best Tips for ([\w\s-]+)', text): <<text, group(1).strip()>>
TitleSearchTable ==
  {
    <<"Build Something Great!\nFifty Best Tips for High-Tech Startups", "High-Tech Startups">>,
    <<"Build Something Great! Fifty Best Tips for High-Tech Startups", "High-Tech Startups">>
  }

\* re.search(author_patterns[p], text): <<p, text, group(1), group(2) or "">>; match.lastgroup is None in every row
AuthorSearchTable ==
  {
    <<2, "Build Something Great!\nFifty Best Tips for High-Tech Startups", "Build Something", "">>,
    <<2, "Build Something Great! Fifty Best Tips for High-Tech Startups", "Build Something", "">>,
    <<1, "by David Overhauser and Resve Saleh", "David Overhauser and Resve Saleh", "">>,
    <<2, "by David Overhauser and Resve Saleh", "David Overhauser", "Resve Saleh">>
  }

\* analyze_document: <<first_chunk, '(?:' + re.escape(re.search(r'^([^.!?\n]+)', first_chunk).group(1).strip()) + ')'>>
FirstLineTable ==
  {
    <<"Build Something Great!\nFifty Best Tips for High-Tech Startups", "(?:Build\\ Something\\ Great)">>,
    <<"by David Overhauser and Resve Saleh", "(?:by\\ David\\ Overhauser\\ and\\ Resve\\ Saleh)">>,
    <<"This handbook is a guide to successful business planning.", "(?:This\\ handbook\\ is\\ a\\ guide\\ to\\ successful\\ business\\ planning)">>,
    <<"The main focus is cats & dogs.", "(?:The\\ main\\ focus\\ is\\ cats\\ \\&\\ dogs)">>
  }

\* re.search(learned title pattern, text, re.IGNORECASE) finds a match: <<pattern, text>>
LearnedSearchTable ==
  {
    <<"(?:Build\\ Something\\ Great)", "Build Something Great!\nFifty Best Tips for High-Tech Startups">>,
    <<"(?:Build\\ Something\\ Great)", "Build Something Great! Fifty Best Tips for High-Tech Startups">>,
    <<"(?:by\\ David\\ Overhauser\\ and\\ Resve\\ Saleh)", "by David Overhauser and Resve Saleh">>,
    <<"(?:This\\ handbook\\ is\\ a\\ guide\\ to\\ successful\\ business\\ planning)", "This handbook is a guide to successful business planning.">>,
    <<"(?:The\\ main\\ focus\\ is\\ cats\\ \\&\\ dogs)", "The main focus is cats & dogs.">>
  }

\* answer.replace('  ', ' ')
ReplaceTable ==
  {
    <<"High-Tech Startups", "High-Tech Startups">>,
    <<"cats  dogs", "cats dogs">>,
    <<"successful business planning", "successful business planning">>
  }

\* answer[0].upper() + answer[1:]
CapTable ==
  {
    <<"High-Tech Startups", "High-Tech Startups">>,
    <<"cats dogs", "Cats dogs">>,
    <<"successful business planning", "Successful business planning">>
  }

\* str.strip() of a model answer
StripTable ==
  {
    <<"", "">>,
    <<" ", "">>,
    <<"fifty tips", "fifty tips">>
  }
----------------------------------------------------------------------------
(* str and re on the catalogue *)

Lookup(T, k) == (CHOOSE p \in T : p[1] = k)[2]

Range(f) == {f[i] : i \in DOMAIN f}

\* str.lower()
Lower(s) == Lookup(LowerTable, s)

\* needle in haystack
Contains(needle, haystack) == <<needle, haystack>> \in ContainsTable

\* question.split()
Split(qu) == Lookup(SplitTable, qu)

\* str.strip() of a model answer
StripAnswer(a) == Lookup(StripTable, a)

\* " ".join(strings)
RECURSIVE Join(_)
Join(ss) ==
    IF ss = <<>> THEN ""
    ELSE IF Len(ss) = 1 THEN ss[1]
    ELSE ss[1] \o " " \o Join(Tail(ss))

\* s[::-1]
Reverse(s) == [i \in 1..Len(s) |-> s[Len(s) + 1 - i]]

\* s[-k:] for k >= 0: -0 is 0, so s[-0:] is the whole of s
PyTail(s, k) == IF k = 0 \/ k >= Len(s) THEN s ELSE SubSeq(s, Len(s) - k + 1, Len(s))

----------------------------------------------------------------------------
(* Bounds and the input domain of the question answerer *)

\* most chunks of a document given to answer_question
MaxChunkCount == 3

\* most chunks given to a direct find_relevant_chunks call, and largest top_k
MaxRankChunks == 2

MaxTopK == 3

\* cosine similarities, in tenths
Sims == {-10, -9, 5}

\* cosine similarities given to answer_question, in tenths
QASims == {-9, 5}

\* scores the QA model may report, in hundredths
ModelScores == {10, 30}

\* chunk lists of distinct raw texts, of 1..n chunks
DocsUpTo(n) ==
    UNION {{d \in [1..k -> RawTexts] : \A i, j \in 1..k : i # j => d[i] # d[j]} : k \in 1..n}

----------------------------------------------------------------------------
(* QuestionAnswerer.preprocess_chunk and find_relevant_chunks *)

\* preprocess_chunk
preprocess_chunk(chunk) == Lookup(CleanTable, chunk)

\* question_words = set(word.lower() for word in question.split() if len(word) > 3)
MinKeywordLen == 3

question_words(qu) == {Lower(w) : w \in {x \in Range(Split(qu)) : Len(x) > MinKeywordLen}}

\* keyword_matches = sum(1 for word in question_words if word in chunk_lower)
keyword_matches(qu, chunk) ==
    Cardinality({w \in question_words(qu) : Contains(w, Lower(chunk))})

\* scores[i] *= (1 + 0.2 * keyword_matches), times BoostUnit to stay in integers
BoostUnit == 5

BoostedScore(sim, matches) == sim * (BoostUnit + matches)

BoostedScores(qu, ss, cs) ==
    [i \in 1..Len(cs) |-> BoostedScore(ss[i], keyword_matches(qu, cs[i]))]

\* np.argsort(scores), ascending.  The default kind is not a stable sort: a
\* build that sorts short arrays by insertion keeps equal scores in index
\* order, another build (a vectorised quicksort) may return them in any order.
ArgsortOutcomes(sc) ==
    {p \in [1..Len(sc) -> 1..Len(sc)] :
        /\ \A i, j \in 1..Len(sc) : i # j => p[i] # p[j]
        /\ \A i, j \in 1..Len(sc) : i < j => sc[p[i]] <= sc[p[j]]
        /\ stable_sort =>
              \A i, j \in 1..Len(sc) : (i < j /\ sc[p[i]] = sc[p[j]]) => p[i] < p[j]}

\* top_indices = np.argsort(scores)[-top_k:][::-1]
TopIndices(sorted, k) == Reverse(PyTail(sorted, k))

\* selected_chunks = [self.preprocess_chunk(chunks[i]) for i in top_indices]
Selected(cs, idx) == [k \in 1..Len(idx) |-> preprocess_chunk(cs[idx[k]])]

\* the body of find_relevant_chunks
FindRelevant(k) ==
    \E p \in ArgsortOutcomes(BoostedScores(question, sims, doc)) :
        /\ scores' = BoostedScores(question, sims, doc)
        /\ order' = TopIndices(p, k)
        /\ relevant' = Selected(doc, TopIndices(p, k))

----------------------------------------------------------------------------
(* QuestionAnswerer.extract_fallback_answer *)

NoMatch == [kind |-> "none", answer |-> "", score |-> 0]

Raised(e) == [kind |-> "raise", answer |-> e, score |-> 0]

Match(a, sc) == [kind |-> "match", answer |-> a, score |-> sc]

\* confidences of the local focus_patterns list, in hundredths
FocusConf == <<95, 90, 85, 80, 75, 70, 70, 60, 50>>

\* score of the title fallback and of an author match, in hundredths
TitleScore == 80

AuthorScore == 90

\* chunks the focus rules and the author rules look at
FocusChunks == 3

AuthorChunks == 2

AuthorPatterns == 2

\* minimum answer length
MinAnswerLen == 10

GuardKeywords == {"startup", "business", "company", "tips", "guide"}

\* re.search(pattern r, clean_chunk, re.IGNORECASE)
FocusSearch(r, t) ==
    IF \E h \in FocusSearchTable : h[1] = r /\ h[2] = t
    THEN [found |-> TRUE, g |-> (CHOOSE h \in FocusSearchTable : h[1] = r /\ h[2] = t)[3]]
    ELSE [found |-> FALSE, g |-> ""]

\* answer.replace('  ', ' '), then answer[0].upper() + answer[1:]
PostProcess(a) == Lookup(CapTable, Lookup(ReplaceTable, a))

\* any(keyword in answer.lower() for keyword in keywords)
GuardOK(a) == \E k \in GuardKeywords : Contains(k, Lower(a))

\* rule r yields an answer on chunk t that passes the length and keyword tests
RulePasses(r, t) ==
    LET m == FocusSearch(r, preprocess_chunk(t))
    IN  /\ m.found
        /\ Len(m.g) >= MinAnswerLen
        /\ GuardOK(PostProcess(m.g))

RuleAnswer(r, t) == PostProcess(FocusSearch(r, preprocess_chunk(t)).g)

\* the first (chunk, rule) of the nested loops that returns
FirstHit(H) == CHOOSE h \in H : \A o \in H : h[1] < o[1] \/ (h[1] = o[1] /\ h[2] <= o[2])

FocusBranch(cands) ==
    LET H == {h \in (1..Min(FocusChunks, Len(cands))) \X (1..Len(FocusConf)) :
                 RulePasses(h[2], cands[h[1]])}
    IN  IF H # {}
        THEN Match(RuleAnswer(FirstHit(H)[2], cands[FirstHit(H)[1]]), FocusConf[FirstHit(H)[2]])
        ELSE IF cands = <<>> THEN Raised("IndexError")
        ELSE IF \E h \in TitleSearchTable : h[1] = cands[1]
        THEN Match(Lookup(TitleSearchTable, cands[1]), TitleScore)
        ELSE NoMatch

\* match.lastgroup of an author match: the patterns name no group
LastGroup(p, t) == "None"

AuthorBranch(cands) ==
    LET H == {h \in (1..Min(AuthorChunks, Len(cands))) \X (1..AuthorPatterns) :
                 \E a \in AuthorSearchTable : a[1] = h[2] /\ a[2] = cands[h[1]]}
    IN  IF H = {} THEN NoMatch
        ELSE LET h == FirstHit(H)
                 a == CHOOSE x \in AuthorSearchTable : x[1] = h[2] /\ x[2] = cands[h[1]]
             IN  \* match.lastgroup > 1 compares None with an int
                 IF LastGroup(h[2], cands[h[1]]) = "None" THEN Raised("TypeError")
                 ELSE IF a[4] # ""
                 THEN Match(a[3] \o " and " \o a[4], AuthorScore)
                 ELSE Match(a[3], AuthorScore)

AnyIn(ws, qu) == \E w \in ws : Contains(w, Lower(qu))

extract_fallback_answer(qu, cands) ==
    IF AnyIn({"focus", "subject", "about"}, qu) THEN FocusBranch(cands)
    ELSE IF AnyIn({"author", "who"}, qu) THEN AuthorBranch(cands)
    ELSE NoMatch

----------------------------------------------------------------------------
(* QuestionAnswerer.__init__, analyze_document and answer_question *)

InitialFocusPatterns ==
    << <<"(?:title|subject):\\s*([\\w\\s-]+)", 95>>,
       <<"^(?:chapter|section)\\s+\\d+[:.]\\s*([\\w\\s-]+)", 90>>,
       <<"(?:about|discusses|covers|explains)\\s+([\\w\\s-]+)", 85>>,
       <<"(?:guide|manual|book)\\s+(?:for|on|about)\\s+([\\w\\s-]+)", 80>>,
       <<"(?:focuses?|focusing)\\s+on\\s+([\\w\\s-]+)", 75>>,
       <<"main\\s+(?:topic|subject|focus)\\s+(?:is|:)\\s+([\\w\\s-]+)", 70>>,
       <<"(?:provides|offers)\\s+([\\w\\s-]+)", 65>> >>

\* confidence of the learned title pattern, in hundredths
LearnedConf == 98

\* top_k of the ranking inside answer_question
AnswerTopK == 5

\* chunks of the context a short-circuit result carries
EarlyContextChunks == 2

\* the acceptance threshold 0.3, in hundredths
AcceptScore == 30

\* analyze_document: self.focus_patterns after learning from first_chunk
analyze_document(fp, first_chunk) ==
    IF \E h \in FirstLineTable : h[1] = first_chunk
    THEN << <<Lookup(FirstLineTable, first_chunk), LearnedConf>> >> \o fp
    ELSE fp

\* the intent test before the model call
PreIntent(qu) == AnyIn({"focus", "subject", "about", "main"}, qu)

\* the candidates of the fallback before the model call
EarlyCandidates(cs, rel) == <<cs[1]>> \o rel

\* an early result that carries the title fallback's score
EarlyResultFixedScore(fb, rel) ==
    [answer |-> fb.answer, confidence |-> TitleScore,
     context |-> Join(PySlice(rel, 0, EarlyContextChunks))]

\* the result returned when the fallback matches before the model call
EarlyResult(fb, rel) ==
    [answer |-> fb.answer, confidence |-> fb.score,
     context |-> Join(PySlice(rel, 0, EarlyContextChunks))]

\* an acceptance test that rejects every result
RejectedAlways(res) == TRUE

\* an acceptance test with a strict threshold
RejectedStrict(res) == StripAnswer(res.answer) = "" \/ res.score <= AcceptScore

\* not result['answer'].strip() or float(result['score']) < 0.3
Rejected(res) == StripAnswer(res.answer) = "" \/ res.score < AcceptScore

QAIdle ==
    /\ stable_sort = TRUE
    /\ focus_patterns = InitialFocusPatterns
    /\ analyzed = FALSE
    /\ analyze_calls = 0
    /\ had_chunks = FALSE
    /\ question = ""
    /\ doc = <<>>
    /\ sims = <<>>
    /\ top_k = 0
    /\ qpc = "idle"
    /\ scores = <<>>
    /\ order = <<>>
    /\ relevant = <<>>
    /\ context = ""
    /\ model_result = NoMatch
    /\ qa_calls = 0
    /\ fb_calls = 0
    /\ ret = "none"
    /\ prev_order = <<>>
    /\ added = <<>>

ChunkerIdle ==
    /\ chunk_size = 0
    /\ overlap = 0
    /\ max_chunks = 0
    /\ batch_size = 0
    /\ stats = [total_chars |-> 0, total_chunks |-> 0, processing_time |-> 0]
    /\ text = <<>>
    /\ cpc = "idle"
    /\ starts = <<>>
    /\ batch_idx = 0
    /\ chunks = <<>>
    /\ result = "none"

\* QuestionAnswerer() and the arguments of the first answer_question call; no
\* tie order is assumed of np.argsort
QAInit ==
    /\ stable_sort = FALSE
    /\ focus_patterns = InitialFocusPatterns
    /\ analyzed = FALSE
    /\ analyze_calls = 0
    /\ had_chunks = FALSE
    /\ question \in Questions
    /\ doc \in DocsUpTo(MaxChunkCount)
    /\ sims \in [1..Len(doc) -> QASims]
    /\ top_k = AnswerTopK
    /\ qpc = "call"
    /\ scores = <<>>
    /\ order = <<>>
    /\ relevant = <<>>
    /\ context = ""
    /\ model_result = NoMatch
    /\ qa_calls = 0
    /\ fb_calls = 0
    /\ ret = "none"
    /\ prev_order = <<>>
    /\ added = <<>>

\* a guard that lets the analysis run in every call with chunks
AnalyzeEveryCall(cs, an) == cs # <<>>

\* if chunks and not hasattr(self, '_analyzed')
ShouldAnalyze(cs, an) == cs # <<>> /\ ~an

\* the start of answer_question: the analysis, once, then the ranking; with no
\* chunks the ranking raises (cosine_similarity takes no empty array) or, on a
\* build where it returns, a later line of the call does (chunks[0], or the
\* QA model on an empty context)
AnswerRank ==
    /\ qpc = "call"
    /\ IF ShouldAnalyze(doc, analyzed)
       THEN /\ focus_patterns' = analyze_document(focus_patterns, doc[1])
            /\ analyzed' = TRUE
            /\ analyze_calls' = analyze_calls + 1
       ELSE UNCHANGED <<focus_patterns, analyzed, analyze_calls>>
    /\ had_chunks' = (had_chunks \/ doc # <<>>)
    /\ IF doc # <<>>
       THEN /\ FindRelevant(top_k)
            /\ qpc' = "ranked"
            /\ UNCHANGED ret
       ELSE /\ qpc' = "raised"
            /\ ret' \in {"ValueError", "IndexError"}
            /\ UNCHANGED <<scores, order, relevant>>
    /\ UNCHANGED <<chunkerVars, appVars, semVars, fb_calls, stable_sort, question, doc, sims, top_k, context, model_result, qa_calls,
                   prev_order, added>>

\* the fallback tried first for focus/subject questions
AnswerShortCircuit ==
    /\ qpc = "ranked"
    /\ LET fb == IF PreIntent(question)
                 THEN extract_fallback_answer(question, EarlyCandidates(doc, relevant))
                 ELSE NoMatch
       IN  CASE fb.kind = "raise" -> qpc' = "raised" /\ ret' = fb.answer
             [] fb.kind = "match" -> qpc' = "done" /\ ret' = EarlyResult(fb, relevant)
             [] OTHER -> qpc' = "neural" /\ UNCHANGED ret
    /\ fb_calls' = IF PreIntent(question) THEN fb_calls + 1 ELSE fb_calls
    /\ UNCHANGED <<chunkerVars, appVars, semVars, analyze_calls, had_chunks, stable_sort, focus_patterns, analyzed, question, doc, sims, top_k, scores, order,
                   relevant, context, model_result, qa_calls, prev_order, added>>

\* context = " ".join(relevant_chunks); the QA model returns a result
AnswerModel ==
    /\ qpc = "neural"
    /\ context' = Join(relevant)
    /\ qa_calls' = qa_calls + 1
    /\ \E a \in ModelAnswers, sc \in ModelScores :
          model_result' = [answer |-> a, score |-> sc]
    /\ qpc' = "attempted"
    /\ UNCHANGED <<chunkerVars, appVars, semVars, analyze_calls, had_chunks, fb_calls, stable_sort, focus_patterns, analyzed, question, doc, sims, top_k, scores, order,
                   relevant, ret, prev_order, added>>

\* the QA model call fails
AnswerModelFails ==
    /\ qpc = "neural"
    /\ context' = Join(relevant)
    /\ qa_calls' = qa_calls + 1
    /\ qpc' = "raised"
    /\ ret' = "ModelError"
    /\ UNCHANGED <<chunkerVars, appVars, semVars, analyze_calls, had_chunks, fb_calls, stable_sort, focus_patterns, analyzed, question, doc, sims, top_k, scores, order,
                   relevant, model_result, prev_order, added>>

\* the acceptance test, the fallback after the model, and the return
AnswerFinish ==
    /\ qpc = "attempted"
    /\ LET fb == IF Rejected(model_result)
                 THEN extract_fallback_answer(question, relevant)
                 ELSE NoMatch
       IN  CASE fb.kind = "raise" -> qpc' = "raised" /\ ret' = fb.answer
             [] fb.kind = "match" ->
                    /\ qpc' = "done"
                    /\ ret' = [answer |-> fb.answer, confidence |-> fb.score,
                               context |-> context]
             [] OTHER ->
                    /\ qpc' = "done"
                    /\ ret' = [answer |-> model_result.answer,
                               confidence |-> model_result.score,
                               context |-> context]
    /\ fb_calls' = IF Rejected(model_result) THEN fb_calls + 1 ELSE fb_calls
    /\ UNCHANGED <<chunkerVars, appVars, semVars, analyze_calls, had_chunks, stable_sort, focus_patterns, analyzed, question, doc, sims, top_k, scores, order,
                   relevant, context, model_result, qa_calls, prev_order, added>>

\* the next question about the same document, on the same instance
AnswerAgain ==
    /\ qpc \in {"done", "raised"}
    /\ question' \in Questions
    /\ sims' \in [1..Len(doc) -> QASims]
    /\ qpc' = "call"
    /\ scores' = <<>>
    /\ order' = <<>>
    /\ relevant' = <<>>
    /\ context' = ""
    /\ model_result' = NoMatch
    /\ qa_calls' = 0
    /\ fb_calls' = 0
    /\ ret' = "none"
    /\ UNCHANGED <<chunkerVars, appVars, semVars, analyze_calls, had_chunks, stable_sort, focus_patterns, analyzed, doc, top_k, prev_order, added>>

QANext ==
    \/ AnswerRank
    \/ AnswerShortCircuit
    \/ AnswerModel
    \/ AnswerModelFails
    \/ AnswerFinish
    \/ AnswerAgain

----------------------------------------------------------------------------
(* Sequences of answer_question calls on one instance, with the chunks of   *)
(* any document, or none, in each call                                      *)

\* most chunks of a document in these sequences
MaxSessionChunks == 1

\* the chunk lists passed: none, or the chunks of a document
SessionDocs == {<<>>} \cup DocsUpTo(MaxSessionChunks)

\* QuestionAnswerer() and the arguments of the first call
SessionInit ==
    /\ stable_sort = FALSE
    /\ focus_patterns = InitialFocusPatterns
    /\ analyzed = FALSE
    /\ analyze_calls = 0
    /\ had_chunks = FALSE
    /\ question \in Questions
    /\ doc \in SessionDocs
    /\ sims \in [1..Len(doc) -> QASims]
    /\ top_k = AnswerTopK
    /\ qpc = "call"
    /\ scores = <<>>
    /\ order = <<>>
    /\ relevant = <<>>
    /\ context = ""
    /\ model_result = NoMatch
    /\ qa_calls = 0
    /\ fb_calls = 0
    /\ ret = "none"
    /\ prev_order = <<>>
    /\ added = <<>>

\* the next call on the same instance, with the chunks of another document
AnswerOtherDocument ==
    /\ qpc \in {"done", "raised"}
    /\ question' \in Questions
    /\ doc' \in SessionDocs \ {doc}
    /\ sims' \in [1..Len(doc') -> QASims]
    /\ qpc' = "call"
    /\ scores' = <<>>
    /\ order' = <<>>
    /\ relevant' = <<>>
    /\ context' = ""
    /\ model_result' = NoMatch
    /\ qa_calls' = 0
    /\ fb_calls' = 0
    /\ ret' = "none"
    /\ UNCHANGED <<chunkerVars, appVars, semVars, analyze_calls, had_chunks, stable_sort, focus_patterns, analyzed, top_k,
                   prev_order, added>>

SessionNext ==
    \/ AnswerRank
    \/ AnswerShortCircuit
    \/ AnswerModel
    \/ AnswerModelFails
    \/ AnswerFinish
    \/ AnswerAgain
    \/ AnswerOtherDocument

----------------------------------------------------------------------------
(* Direct calls of find_relevant_chunks *)

\* the questions asked in direct calls
RankQuestions ==
    {"What is the main focus of this book?", "How many chapters are there?"}

RankInit ==
    /\ stable_sort \in BOOLEAN
    /\ focus_patterns = InitialFocusPatterns
    /\ analyzed = FALSE
    /\ analyze_calls = 0
    /\ had_chunks = FALSE
    /\ question \in RankQuestions
    /\ doc \in DocsUpTo(MaxRankChunks)
    /\ sims \in [1..Len(doc) -> Sims]
    /\ top_k \in 0..MaxTopK
    /\ qpc = "rank_call"
    /\ scores = <<>>
    /\ order = <<>>
    /\ relevant = <<>>
    /\ context = ""
    /\ model_result = NoMatch
    /\ qa_calls = 0
    /\ fb_calls = 0
    /\ ret = "none"
    /\ prev_order = <<>>
    /\ added = <<>>

\* find_relevant_chunks(question, question_embedding, chunk_embeddings, chunks, top_k)
RankCall ==
    /\ qpc = "rank_call"
    /\ FindRelevant(top_k)
    /\ qpc' = "rank_done"
    /\ ret' = relevant'
    /\ UNCHANGED <<chunkerVars, appVars, semVars, analyze_calls, had_chunks, fb_calls, stable_sort, focus_patterns, analyzed, question, doc, sims, top_k, context,
                   model_result, qa_calls, prev_order, added>>

\* the caller adds a question keyword to one chunk's text, keeps the embeddings
\* and ranks again
RankAddKeyword ==
    /\ qpc = "rank_done"
    /\ added = <<>>
    /\ \E i \in 1..Len(doc) :
         \E w \in {x \in question_words(question) : ~Contains(x, Lower(doc[i]))} :
            /\ doc' = [doc EXCEPT ![i] = doc[i] \o " " \o w]
            /\ added' = <<i, w>>
    /\ prev_order' = order
    /\ qpc' = "rank_call"
    /\ ret' = "none"
    /\ UNCHANGED <<chunkerVars, appVars, semVars, analyze_calls, had_chunks, fb_calls, stable_sort, focus_patterns, analyzed, question, sims, top_k, scores, order,
                   relevant, context, model_result, qa_calls>>

RankNext ==
    \/ RankCall
    \/ RankAddKeyword

----------------------------------------------------------------------------
(* Direct calls of extract_fallback_answer *)

\* most candidate chunks given to a direct extract_fallback_answer call
MaxCands == 3

\* texts of candidate chunks: raw chunks and chunks find_relevant_chunks cleaned
FallbackTexts == RawTexts \cup {preprocess_chunk(t) : t \in RawTexts}

\* candidate lists of 0..n chunks
CandsUpTo(n) == UNION {[1..k -> FallbackTexts] : k \in 0..n}

FallbackInit ==
    /\ stable_sort = TRUE
    /\ focus_patterns = InitialFocusPatterns
    /\ analyzed = FALSE
    /\ analyze_calls = 0
    /\ had_chunks = FALSE
    /\ question \in Questions
    /\ doc \in CandsUpTo(MaxCands)
    /\ sims = <<>>
    /\ top_k = 0
    /\ qpc = "fb_call"
    /\ scores = <<>>
    /\ order = <<>>
    /\ relevant = <<>>
    /\ context = ""
    /\ model_result = NoMatch
    /\ qa_calls = 0
    /\ fb_calls = 0
    /\ ret = "none"
    /\ prev_order = <<>>
    /\ added = <<>>

\* extract_fallback_answer(question, chunks)
FallbackCall ==
    /\ qpc = "fb_call"
    /\ LET fb == extract_fallback_answer(question, doc)
       IN  IF fb.kind = "raise"
           THEN qpc' = "raised" /\ ret' = fb.answer
           ELSE qpc' = "fb_done" /\ ret' = fb
    /\ UNCHANGED <<chunkerVars, appVars, semVars, analyze_calls, had_chunks, fb_calls, stable_sort, focus_patterns, analyzed, question, doc, sims, top_k, scores,
                   order, relevant, context, model_result, qa_calls, prev_order, added>>

FallbackNext == FallbackCall

----------------------------------------------------------------------------
(* DocumentProcessor (src/app/core/document_processor.py), DocumentEmbedder  *)
(* (src/document_embedder.py) and the request handlers (src/app)             *)

\* most texts given to a direct embed_text call
MaxTexts == 3

\* texts given to embed_text
TextPool == {<<>>, <<" ">>, <<"a">>, <<" ", "b">>}

\* texts extracted from documents
DocTexts ==
    {<<>>, <<"a">>, <<"a", "\n", "\n", "b">>, <<" ", "\n", "\n", "b", " ">>,
     <<"a", "\n", "\n", "\n", "b">>}

\* the paragraphs of these texts that are not blank, trimmed
ParaPool == {<<"a">>, <<"b">>}

\* token counts the tokenizer may give a paragraph
TokenCounts == {1, 2500, 4001}

\* the queries of requests
Queries == {<<>>, <<" ">>, <<"q">>}

\* self.max_tokens
MaxTokens == 4000

\* chunk_text returns chunks[:1]
MaxChunksKept == 1

NoResult == [kind |-> "none", value |-> <<>>, exc |-> "none", msg |-> "none"]

\* a returned value
Return(v) == [kind |-> "return", value |-> v, exc |-> "none", msg |-> "none"]

\* a raised exception of class e whose message carries m
Raise(e, m) == [kind |-> "raise", value |-> <<>>, exc |-> e, msg |-> m]

\* an except clause for class cls catches exception r; every class raised
\* here derives from Exception and from no other class named in a clause
Catches(cls, r) == r.kind = "raise" /\ (cls = "Exception" \/ r.exc = cls)

\* the vector the embedding service gives text t
Embedding(t) == <<"embedding", t>>

\* a filter that keeps every text
KeepAllTexts(ts) == ts

\* the texts embed_text does not skip: if not text.strip(): continue
NonBlank(ts) == SelectSeq(ts, LAMBDA t : Strip(t) # <<>>)

\* DocumentProcessor.embed_text(texts), when before embeddings.create calls
\* were made earlier in the request
embed_text(ts, before) ==
    IF ~has_key THEN Raise("AttributeError", "client")
    ELSE LET nb == NonBlank(ts)
         IN  IF fail_at \in (before + 1)..(before + Len(nb))
             THEN Raise("APIError", "embeddings")
             ELSE IF nb = <<>> THEN Raise("ValueError", "No valid text chunks to embed")
             ELSE Return([i \in 1..Len(nb) |-> Embedding(nb[i])])

\* text.split('\n\n'), from index i on with cur the piece being read
RECURSIVE SplitParas(_, _, _)
SplitParas(t, i, cur) ==
    IF i > Len(t) THEN <<cur>>
    ELSE IF i < Len(t) /\ t[i] = "\n" /\ t[i + 1] = "\n"
    THEN <<cur>> \o SplitParas(t, i + 2, <<>>)
    ELSE SplitParas(t, i + 1, Append(cur, t[i]))

\* the separator chunk_text puts after each paragraph
ParaSep == <<"\n", "\n">>

\* the loop of chunk_text over paragraphs ps from index i on
RECURSIVE ChunkLoop(_, _, _)
ChunkLoop(ps, i, st) ==
    IF i > Len(ps) THEN st
    ELSE LET paragraph == Strip(ps[i])
         IN  IF paragraph = <<>> THEN ChunkLoop(ps, i + 1, st)
             ELSE IF st.current_tokens + tokens[paragraph] <= MaxTokens
             THEN ChunkLoop(ps, i + 1,
                      [chunks |-> st.chunks,
                       current_chunk |-> st.current_chunk \o paragraph \o ParaSep,
                       current_tokens |-> st.current_tokens + tokens[paragraph]])
             ELSE ChunkLoop(ps, i + 1,
                      [chunks |-> IF st.current_chunk # <<>>
                                  THEN Append(st.chunks, Strip(st.current_chunk))
                                  ELSE st.chunks,
                       current_chunk |-> paragraph \o ParaSep,
                       current_tokens |-> tokens[paragraph]])

\* DocumentProcessor.chunk_text
chunk_text(t) ==
    LET st == ChunkLoop(SplitParas(t, 1, <<>>), 1,
                        [chunks |-> <<>>, current_chunk |-> <<>>, current_tokens |-> 0])
        cs == IF st.current_chunk # <<>>
              THEN Append(st.chunks, Strip(st.current_chunk))
              ELSE st.chunks
    IN  PySlice(cs, 0, MaxChunksKept)

\* the try block of process_document
ExtractText ==
    IF ~path_exists THEN Raise("FileNotFoundError", "Document not found")
    ELSE IF is_pdf THEN Return(doc_text)
    ELSE Raise("ValueError", "Unsupported document type")

\* DocumentProcessor.process_document: except Exception as e: raise Exception(...)
process_document ==
    IF Catches("Exception", ExtractText)
    THEN Raise("Exception", ExtractText.msg)
    ELSE ExtractText

\* the chunks with the highest similarity, joined: chunk_text keeps at most
\* one chunk, so argsort()[-3:][::-1] selects it
RelevantText(cs) == cs[1]

\* the try block of process_document_query
QueryBody ==
    LET t  == process_document
        cs == chunk_text(t.value)
        ce == embed_text(cs, 0)
        qe == embed_text(<<query>>, Len(NonBlank(cs)))
    IN  IF t.kind = "raise" THEN t
        ELSE IF ce.kind = "raise" THEN ce
        ELSE IF qe.kind = "raise" THEN qe
        ELSE IF ~chat_ok THEN Raise("APIError", "chat")
        ELSE Return(<<"chat", RelevantText(cs), query>>)

\* DocumentProcessor.process_document_query
process_document_query ==
    IF ~has_key THEN Return(<<"OpenAI API key not configured">>)
    ELSE IF Catches("Exception", QueryBody)
    THEN Return(<<"Error processing query", QueryBody.exc, QueryBody.msg>>)
    ELSE QueryBody

\* app.core.question_answerer.QuestionAnswerer.answer_question(question, chunks)
core_answer_question(cs) ==
    IF ~chat_ok THEN Raise("Exception", "Error generating answer")
    ELSE Return(<<"answer", IF cs # <<>> THEN cs[1] ELSE <<>>, query>>)

\* DocumentEmbedder.embed_chunks: self.model.encode(chunks), a vector per chunk
embed_chunks(cs) == [i \in 1..Len(cs) |-> Embedding(cs[i])]

NoReply == [status |-> 0, body |-> <<>>]

Reply(st, b) == [status |-> st, body |-> b]

AppIdle ==
    /\ has_key = FALSE
    /\ fail_at = 0
    /\ chat_ok = FALSE
    /\ fields_ok = FALSE
    /\ path_exists = FALSE
    /\ is_pdf = FALSE
    /\ doc_text = <<>>
    /\ tokens = <<>>
    /\ query = <<>>
    /\ texts = <<>>
    /\ apc = "idle"
    /\ app_ret = NoResult
    /\ http = NoReply
    /\ chunk_embeddings = <<>>

\* a direct call of embed_text
EmbedInit ==
    /\ has_key \in BOOLEAN
    /\ fail_at \in 0..MaxTexts
    /\ texts \in UNION {[1..k -> TextPool] : k \in 0..MaxTexts}
    /\ apc = "embed_call"
    /\ chat_ok = FALSE /\ fields_ok = FALSE /\ path_exists = FALSE /\ is_pdf = FALSE
    /\ doc_text = <<>> /\ tokens = <<>> /\ query = <<>>
    /\ app_ret = NoResult /\ http = NoReply /\ chunk_embeddings = <<>>

\* a POST /api/document/query request
QueryInit ==
    /\ has_key \in BOOLEAN
    /\ fail_at \in 0..(MaxChunksKept + 1)
    /\ chat_ok \in BOOLEAN
    /\ path_exists \in BOOLEAN
    /\ is_pdf \in BOOLEAN
    /\ doc_text \in DocTexts
    /\ tokens \in [ParaPool -> TokenCounts]
    /\ query \in Queries
    /\ apc = "query_call"
    /\ fields_ok = TRUE /\ texts = <<>>
    /\ app_ret = NoResult /\ http = NoReply /\ chunk_embeddings = <<>>

\* a POST /api/ask request
AskInit ==
    /\ has_key \in BOOLEAN
    /\ chat_ok \in BOOLEAN
    /\ fields_ok \in BOOLEAN
    /\ path_exists \in BOOLEAN
    /\ is_pdf \in BOOLEAN
    /\ doc_text \in DocTexts
    /\ tokens \in [ParaPool -> TokenCounts]
    /\ query \in Queries
    /\ apc = "ask_call"
    /\ fail_at = 0 /\ texts = <<>>
    /\ app_ret = NoResult /\ http = NoReply /\ chunk_embeddings = <<>>

AppInit == EmbedInit \/ QueryInit \/ AskInit

\* embed_text(texts)
EmbedCall ==
    /\ apc = "embed_call"
    /\ app_ret' = embed_text(texts, 0)
    /\ apc' = IF app_ret'.kind = "raise" THEN "embed_raised" ELSE "embed_done"
    /\ UNCHANGED <<chunkerVars, qaVars, semVars, has_key, fail_at, chat_ok, fields_ok, path_exists, is_pdf,
                   doc_text, tokens, query, texts, http, chunk_embeddings>>

\* query_document: processor.process_document_query(doc_path, query)
QueryCall ==
    /\ apc = "query_call"
    /\ app_ret' = process_document_query
    /\ apc' = "query_returned"
    /\ UNCHANGED <<chunkerVars, qaVars, semVars, has_key, fail_at, chat_ok, fields_ok, path_exists, is_pdf,
                   doc_text, tokens, query, texts, http, chunk_embeddings>>

\* query_document: return jsonify({'response': response}), or the except clause
QueryReply ==
    /\ apc = "query_returned"
    /\ http' = IF Catches("Exception", app_ret)
               THEN Reply(500, <<"error", app_ret.exc>>)
               ELSE Reply(200, <<"response", app_ret.value>>)
    /\ apc' = "query_replied"
    /\ UNCHANGED <<chunkerVars, qaVars, semVars, has_key, fail_at, chat_ok, fields_ok, path_exists, is_pdf,
                   doc_text, tokens, query, texts, app_ret, chunk_embeddings>>

\* ask_question up to process_document: the field check, the construction of
\* DocumentProcessor and QuestionAnswerer (openai.OpenAI() raises without a
\* key, caught by the outer except clause), then the extraction
AskCall ==
    /\ apc = "ask_call"
    /\ IF ~fields_ok
       THEN /\ http' = Reply(400, <<"error", "Missing required fields">>)
            /\ apc' = "ask_replied"
            /\ UNCHANGED app_ret
       ELSE IF ~has_key
       THEN /\ http' = Reply(500, <<"error", "OpenAIError">>)
            /\ apc' = "ask_replied"
            /\ UNCHANGED app_ret
       ELSE /\ app_ret' = process_document
            /\ apc' = "ask_extracted"
            /\ UNCHANGED http
    /\ UNCHANGED <<chunkerVars, qaVars, semVars, has_key, fail_at, chat_ok, fields_ok, path_exists, is_pdf,
                   doc_text, tokens, query, texts, chunk_embeddings>>

\* ask_question after process_document: chunk_text, answer_question and the
\* reply, or the inner except clauses
AskReply ==
    /\ apc = "ask_extracted"
    /\ LET r == IF app_ret.kind = "raise" THEN app_ret
                ELSE core_answer_question(chunk_text(app_ret.value))
       IN  /\ http' = IF Catches("FileNotFoundError", r)
                      THEN Reply(404, <<"error", "Document not found">>)
                      ELSE IF Catches("Exception", r)
                      THEN Reply(500, <<"error", "Error processing document">>)
                      ELSE Reply(200, r.value)
           /\ app_ret' = r
    /\ apc' = "ask_replied"
    /\ UNCHANGED <<chunkerVars, qaVars, semVars, has_key, fail_at, chat_ok, fields_ok, path_exists, is_pdf,
                   doc_text, tokens, query, texts, chunk_embeddings>>

AppNext ==
    \/ EmbedCall
    \/ QueryCall
    \/ QueryReply
    \/ AskCall
    \/ AskReply

\* test_end_to_end_processing: embeddings = document_embedder.embed_chunks(chunks)
PipeEmbed ==
    /\ cpc = "done"
    /\ apc = "idle"
    /\ chunk_embeddings' = embed_chunks(result)
    /\ apc' = "embedded"
    /\ UNCHANGED <<chunkerVars, qaVars, semVars, has_key, fail_at, chat_ok, fields_ok, path_exists, is_pdf,
                   doc_text, tokens, query, texts, app_ret, http>>

\* one split_into_chunks call, then the embedding of its chunks
PipeNext ==
    \/ SplitStart
    \/ SplitBatch
    \/ SplitLoopEnd
    \/ SplitReturn
    \/ PipeEmbed

----------------------------------------------------------------------------
(* SemanticProcessor (src/app/core/semantic_processor.py)                   *)

\* the top-level folders asked for
Folders == {"law", "math", "physics"}

\* Python's None
None == <<>>

\* np.array(response.data[0].embedding) for the summary of folder f
FolderVector(f) == <<"embedding", f>>

\* cache[key] = value
DictSet(c, key, value) ==
    [k \in DOMAIN c \cup {key} |-> IF k = key THEN value ELSE c[k]]

\* _generate_folder_summary: the summary, or "" when listing the folder fails
generate_folder_summary(f) == IF summary_ok THEN <<"Knowledge domain", f>> ELSE <<>>

\* _get_text_embedding: the vector, or None when the request fails
get_text_embedding(f) == IF embedding_ok THEN FolderVector(f) ELSE None

SemIdle ==
    /\ embeddings_cache = <<>>
    /\ folder_path = ""
    /\ summary_ok = FALSE
    /\ embedding_ok = FALSE
    /\ spc = "idle"
    /\ sem_ret = None

\* SemanticProcessor(base_path) and the arguments of the first call
SemInit ==
    /\ embeddings_cache = <<>>
    /\ folder_path \in Folders
    /\ summary_ok \in BOOLEAN
    /\ embedding_ok \in BOOLEAN
    /\ spc = "sem_call"
    /\ sem_ret = None

\* _get_folder_embedding(folder_path)
GetFolderEmbedding ==
    /\ spc = "sem_call"
    /\ IF folder_path \in DOMAIN embeddings_cache
       THEN /\ sem_ret' = embeddings_cache[folder_path]
            /\ UNCHANGED embeddings_cache
       ELSE IF generate_folder_summary(folder_path) = <<>>
       THEN /\ sem_ret' = None
            /\ UNCHANGED embeddings_cache
       ELSE /\ embeddings_cache' =
                  DictSet(embeddings_cache, folder_path, get_text_embedding(folder_path))
            /\ sem_ret' = get_text_embedding(folder_path)
    /\ spc' = "sem_done"
    /\ UNCHANGED <<chunkerVars, qaVars, appVars, folder_path, summary_ok, embedding_ok>>

\* the next _get_folder_embedding call on the instance
NextFolderCall ==
    /\ spc = "sem_done"
    /\ folder_path' \in Folders
    /\ summary_ok' \in BOOLEAN
    /\ embedding_ok' \in BOOLEAN
    /\ spc' = "sem_call"
    /\ UNCHANGED <<chunkerVars, qaVars, appVars, embeddings_cache, sem_ret>>

SemNext ==
    \/ GetFolderEmbedding
    \/ NextFolderCall

----------------------------------------------------------------------------
(* Specifications *)

Init == ChunkerInit /\ QAIdle /\ AppIdle /\ SemIdle

Next == ChunkerNext

Spec == Init /\ [][Next]_vars

RankSpecInit == RankInit /\ ChunkerIdle /\ AppIdle /\ SemIdle

RankSpecNext == RankNext

SpecRank == RankSpecInit /\ [][RankSpecNext]_vars

\* direct calls on a build whose argsort is stable
RankStableInit == RankSpecInit /\ stable_sort = TRUE

SpecRankStable == RankStableInit /\ [][RankSpecNext]_vars

FallbackSpecInit == FallbackInit /\ ChunkerIdle /\ AppIdle /\ SemIdle

FallbackSpecNext == FallbackNext

SpecFallback == FallbackSpecInit /\ [][FallbackSpecNext]_vars

PipeSpecInit == ChunkerInit /\ QAIdle /\ AppIdle /\ SemIdle

PipeSpecNext == PipeNext

SpecPipe == PipeSpecInit /\ [][PipeSpecNext]_vars

AppSpecInit == AppInit /\ ChunkerIdle /\ QAIdle /\ SemIdle

AppSpecNext == AppNext

SpecApp == AppSpecInit /\ [][AppSpecNext]_vars

SessionSpecInit == SessionInit /\ ChunkerIdle /\ AppIdle /\ SemIdle

SessionSpecNext == SessionNext

SpecSession == SessionSpecInit /\ [][SessionSpecNext]_vars

SemSpecInit == SemInit /\ ChunkerIdle /\ QAIdle /\ AppIdle

SemSpecNext == SemNext

SpecSem == SemSpecInit /\ [][SemSpecNext]_vars

QASpecInit == QAInit /\ ChunkerIdle /\ AppIdle /\ SemIdle

QASpecNext == QANext

SpecQA == QASpecInit /\ [][QASpecNext]_vars

----------------------------------------------------------------------------
(* Properties of split_into_chunks *)

\* C1: for every text and every configuration with overlap >= chunk_size,
\* split_into_chunks raises a configuration error and never returns a chunk
\* list, not even an empty one.
C1_BadConfigNeverReturns == cpc = "done" => overlap < chunk_size

\* C2: the list split_into_chunks returns has at most max_chunks elements
\* (max_chunks = 0 included), although the early-stop test runs only after a
\* whole batch.
C2_AtMostMaxChunks == cpc = "done" => Len(result) <= max_chunks

\* a call returned after a batch pushed the chunk list past max_chunks
C2_Witness ==
    /\ cpc = "done"
    /\ Len(chunks) > max_chunks
    /\ Len(result) = max_chunks
    /\ max_chunks > 0

\* C3: with overlap < chunk_size every returned chunk, the last one included,
\* has trimmed length at least 100 and at most chunk_size + 50.
C3_ChunkLengthBounds ==
    (cpc = "done" /\ overlap < chunk_size) =>
        \A k \in 1..Len(result) :
            /\ Len(Strip(result[k])) >= MinChunkLen
            /\ Len(Strip(result[k])) <= chunk_size + BoundaryWindow

\* an untruncated call returned several chunks, one of exactly the minimum
\* length, while the chunk of some start offset was dropped as too short
C3_Witness ==
    /\ cpc = "done"
    /\ overlap < chunk_size
    /\ max_chunks = DefaultMaxChunks
    /\ Len(result) >= 2
    /\ Len(result) < Len(starts)
    /\ \E k \in 1..Len(result) : Len(result[k]) = MinChunkLen

\* the chunk one start offset yields, read from the whole text
ChunkAt(t, cs, start) ==
    LET n    == Len(t)
        end0 == Min(start + cs, n)
        end  == IF end0 < n THEN find_boundary(t, end0, start) ELSE end0
    IN  Strip(PySlice(t, start, end))

\* the chunk sequence as a function of (text, chunk_size, overlap, max_chunks)
ChunksOf(t, cs, ov, mc) ==
    LET ss  == PyRange0(Len(t), cs - ov)
        all == [k \in 1..Len(ss) |-> ChunkAt(t, cs, ss[k])]
    IN  PySlice(SelectSeq(all, LAMBDA c : Len(c) >= MinChunkLen), 0, mc)

\* C4: the returned sequence is a function of (text, chunk_size, overlap,
\* max_chunks) alone: it does not depend on batch_size, nor on the calls made
\* earlier on the instance.
C4_FunctionOfFourValues ==
    cpc = "done" => result = ChunksOf(text, chunk_size, overlap, max_chunks)

\* a call returned several chunks after more than one batch of several starts
C4_Witness ==
    /\ cpc = "done"
    /\ batch_size > 1
    /\ batch_idx > 0
    /\ Len(result) >= 2

----------------------------------------------------------------------------
(* Properties of find_relevant_chunks *)

\* C5: find_relevant_chunks returns exactly min(top_k, len(chunks)) chunks for
\* every top_k >= 0; for top_k = 0 it returns the empty list.
C5_ReturnsMinTopK == qpc = "rank_done" => Len(ret) = Min(top_k, Len(doc))

\* C6: the returned chunks are in descending order of final score, and of two
\* chunks with equal final scores the one with the lower original index comes
\* first.
C6_DescendingTiesByIndex ==
    qpc = "rank_done" =>
        \A a, b \in 1..Len(order) :
            a < b => \/ scores[order[a]] > scores[order[b]]
                     \/ scores[order[a]] = scores[order[b]] /\ order[a] < order[b]

\* chunk i is returned, and before chunk j if that is returned too
Before(ord, i, j) ==
    \E a \in 1..Len(ord) :
        /\ ord[a] = i
        /\ \A b \in 1..Len(ord) : ord[b] = j => a < b

\* C7: with the embeddings fixed, adding a question keyword to a chunk's text
\* never moves the chunk behind a chunk that does not contain the keyword.
C7_KeywordBoostMonotonic ==
    (qpc = "rank_done" /\ added # <<>>) =>
        \A j \in 1..Len(doc) :
            (j # added[1] /\ ~Contains(added[2], Lower(doc[j]))) =>
                (Before(prev_order, added[1], j) => Before(order, added[1], j))

----------------------------------------------------------------------------
(* Properties of answer_question *)

\* C8: when the question contains 'focus', 'subject', 'about' or 'main' and the
\* fallback over [chunks[0]] + relevant chunks matches, the call returns that
\* match's answer with that match's confidence, and the QA model is not
\* invoked during the call.
C8_ShortCircuitSkipsModel ==
    (/\ qpc \in {"neural", "attempted", "done", "raised"}
     /\ PreIntent(question)
     /\ extract_fallback_answer(question, <<doc[1]>> \o relevant).kind = "match") =>
        /\ qpc = "done"
        /\ qa_calls = 0
        /\ ret.answer = extract_fallback_answer(question, <<doc[1]>> \o relevant).answer
        /\ ret.confidence = extract_fallback_answer(question, <<doc[1]>> \o relevant).score

\* a focus question was answered from the title by the fallback alone
C8_Witness ==
    /\ qpc = "done"
    /\ qa_calls = 0
    /\ PreIntent(question)
    /\ ret.answer = "High-Tech Startups"
    /\ ret.confidence = FocusConf[1]

\* the model's result passes the acceptance test: a non-blank answer and a
\* score of at least 0.3
ModelAccepted ==
    /\ StripAnswer(model_result.answer) # ""
    /\ model_result.score >= AcceptScore

\* C9: after the QA model has returned, the result carries the model's answer
\* and score if they pass the acceptance test or the fallback over the relevant
\* chunks finds nothing, the fallback's answer and score if the test fails and
\* the fallback matches, and in every case the joined relevant chunks as context.
C9_ResultAfterModel ==
    (qpc = "done" /\ qa_calls = 1) =>
        LET fb == extract_fallback_answer(question, relevant)
        IN  /\ (ModelAccepted \/ fb.kind # "match") =>
                   /\ ret.answer = model_result.answer
                   /\ ret.confidence = model_result.score
            /\ (~ModelAccepted /\ fb.kind = "match") =>
                   /\ ret.answer = fb.answer
                   /\ ret.confidence = fb.score
            /\ ret.context = Join(relevant)

\* a rejected model result was replaced by a fallback match
C9_Witness ==
    /\ qpc = "done"
    /\ qa_calls = 1
    /\ ~ModelAccepted
    /\ extract_fallback_answer(question, relevant).kind = "match"
    /\ ret.answer = extract_fallback_answer(question, relevant).answer
    /\ ret.answer # model_result.answer

\* C10: whenever the QA model call itself returns, answer_question returns a
\* result and does not raise, whatever the question's intent and however
\* empty or low-scored the model's result.
C10_NoRaiseAfterModelReturns ==
    (qpc = "raised" /\ qa_calls = 1) => ret = "ModelError"

\* the chunks searched to produce the returned answer: the fallback's
\* candidates on the short-circuit path, the relevant chunks otherwise
SearchedChunks ==
    IF qa_calls = 0 THEN PySlice(EarlyCandidates(doc, relevant), 0, FocusChunks)
    ELSE relevant

\* C11: in every result answer_question returns, context is the single-space
\* concatenation of exactly the chunks that were searched to produce the
\* returned answer.
C11_ContextIsSearchedChunks ==
    qpc = "done" => ret.context = Join(SearchedChunks)

\* the short-circuit answer came from a chunk that is no part of the context
C11_AnswerOutsideContext ==
    ~(/\ qpc = "done"
      /\ qa_calls = 0
      /\ Len(doc) = 3
      /\ relevant[3] = preprocess_chunk(doc[1])
      /\ ret.answer = "High-Tech Startups"
      /\ ret.context = Join(PySlice(relevant, 0, EarlyContextChunks)))

\* the returned answer was produced by the fallback matcher
FallbackMatched ==
    \/ qa_calls = 0
    \/ /\ Rejected(model_result)
       /\ extract_fallback_answer(question, relevant).kind = "match"

\* the candidate chunks of the fallback call that produced the answer
FallbackCandidates ==
    IF qa_calls = 0 THEN EarlyCandidates(doc, relevant) ELSE relevant

\* the rule analyze_document put at the head of self.focus_patterns
LearnedRule == focus_patterns[1]

\* one of the chunks the subject/focus rules are applied to contains the
\* learned title
LearnedTitleIn(cands) ==
    \E i \in 1..Min(FocusChunks, Len(cands)) :
        <<LearnedRule[1], preprocess_chunk(cands[i])>> \in LearnedSearchTable

\* C12: once analyze_document has run, a subject/focus fallback match consults
\* the learned title rule before all other rules: when a searched chunk
\* contains the learned title, the match has confidence 0.98.
C12_LearnedTitleRuleFirst ==
    (/\ qpc = "done"
     /\ analyzed
     /\ LearnedRule[2] = LearnedConf
     /\ FallbackMatched
     /\ LearnedTitleIn(FallbackCandidates)) =>
        ret.confidence = LearnedConf

----------------------------------------------------------------------------
(* Properties of extract_fallback_answer *)

\* the question has author intent and no subject/focus intent
AuthorIntent(qu) ==
    AnyIn({"author", "who"}, qu) /\ ~AnyIn({"focus", "subject", "about"}, qu)

\* <<chunk, pattern>> pairs of the first two candidates where an author
\* pattern matches
AuthorHits(cands) ==
    {h \in (1..Min(AuthorChunks, Len(cands))) \X (1..AuthorPatterns) :
        \E a \in AuthorSearchTable : a[1] = h[2] /\ a[2] = cands[h[1]]}

\* the name(s) of the first author match, joined by " and "
AuthorNames(cands) ==
    LET h == FirstHit(AuthorHits(cands))
        a == CHOOSE x \in AuthorSearchTable : x[1] = h[2] /\ x[2] = cands[h[1]]
    IN  IF a[4] # "" THEN a[3] \o " and " \o a[4] ELSE a[3]

\* C13: for an author-intent question, whenever an author pattern matches in
\* one of the first 2 candidate chunks, extract_fallback_answer returns the
\* matched name(s) as answer with score exactly 0.9.
C13_AuthorMatchScore ==
    (/\ qpc \in {"fb_done", "raised"}
     /\ AuthorIntent(question)
     /\ AuthorHits(doc) # {}) =>
        /\ qpc = "fb_done"
        /\ ret = Match(AuthorNames(doc), AuthorScore)

\* no rule of the branch the question selects matches in the candidates
NoRuleMatches(qu, cands) ==
    IF AnyIn({"focus", "subject", "about"}, qu)
    THEN /\ \A i \in 1..Min(FocusChunks, Len(cands)), r \in 1..Len(FocusConf) :
                ~RulePasses(r, cands[i])
         /\ cands # <<>> => ~\E h \in TitleSearchTable : h[1] = cands[1]
    ELSE IF AnyIn({"author", "who"}, qu) THEN AuthorHits(cands) = {}
    ELSE TRUE

\* C14: when no rule matches, extract_fallback_answer does not raise and
\* returns the absent result, for every question and every candidate list,
\* the empty list included.
C14_NoMatchReturnsNone ==
    (qpc \in {"fb_done", "raised"} /\ NoRuleMatches(question, doc)) =>
        qpc = "fb_done" /\ ret = NoMatch

----------------------------------------------------------------------------
(* Properties of DocumentProcessor and the request handlers *)

\* text t is empty or whitespace only
IsBlankText(t) == \A i \in 1..Len(t) : IsSpace(t[i])

\* positions of the texts that are not blank
NonBlankAt(ts) == {i \in 1..Len(ts) : ~IsBlankText(ts[i])}

\* C15: embed_text returns exactly one vector per non-blank input text, in
\* input order, and raises instead of returning an empty result when no
\* non-blank text remains.
C15_OneVectorPerNonBlank ==
    /\ apc = "embed_done" =>
          /\ NonBlankAt(texts) # {}
          /\ Len(app_ret.value) = Cardinality(NonBlankAt(texts))
          /\ \A i \in NonBlankAt(texts) :
                app_ret.value[Cardinality({j \in NonBlankAt(texts) : j <= i})]
                    = Embedding(texts[i])
    /\ (apc \in {"embed_done", "embed_raised"} /\ NonBlankAt(texts) = {}) =>
          apc = "embed_raised"

\* a blank text between two others was skipped and two vectors returned
C15_Witness ==
    /\ apc = "embed_done"
    /\ Len(texts) = 3
    /\ IsBlankText(texts[2])
    /\ Len(app_ret.value) = 2
    /\ app_ret.value[2] = Embedding(texts[3])

\* the query's embedding step failed: no credential, or an embeddings.create
\* call raised
EmbeddingFailed ==
    \/ ~has_key
    \/ /\ QueryBody.kind = "raise"
       /\ QueryBody.exc = "APIError"
       /\ QueryBody.msg = "embeddings"

\* C16: when the embedding call fails during a document query,
\* process_document_query returns no normal value and the
\* /api/document/query handler does not reply with a success response.
C16_EmbeddingFailurePropagates ==
    (apc \in {"query_returned", "query_replied"} /\ EmbeddingFailed) =>
        /\ app_ret.kind = "raise"
        /\ apc = "query_replied" => http.status # 200

\* C17: when the document path does not exist, process_document fails with a
\* not-found error of its own class, and the /ask handler replies 404
\* 'Document not found', not the generic 500.
C17_MissingDocumentIs404 ==
    (apc \in {"ask_extracted", "ask_replied"} /\ fields_ok /\ has_key /\ ~path_exists) =>
        /\ app_ret.exc = "FileNotFoundError"
        /\ apc = "ask_replied" => http.status = 404

\* C18: embedding the chunks split_into_chunks produced yields exactly
\* len(chunks) vectors, the i-th belonging to the i-th chunk; no chunk is
\* blank, so skipping blank texts would drop none and shift no position.
C18_VectorPerChunk ==
    apc = "embedded" =>
        /\ Len(chunk_embeddings) = Len(result)
        /\ \A i \in 1..Len(result) :
              /\ chunk_embeddings[i] = Embedding(result[i])
              /\ ~IsBlankText(result[i])
        /\ NonBlankAt(result) = 1..Len(result)

\* several chunks were embedded, after a chunk that trims to nothing was
\* left out by the chunker
C18_Witness ==
    /\ apc = "embedded"
    /\ Len(chunk_embeddings) >= 2
    /\ Len(result) < Len(starts)
    /\ chunk_embeddings[2] = Embedding(result[2])

----------------------------------------------------------------------------
(* Truncation in split_into_chunks *)

\* a max_chunks no chunk sequence of text t reaches
Unlimited(t) == Len(t) + 1

\* the k-th smallest element of the set S of numbers
Kth(S, k) == CHOOSE x \in S : Cardinality({y \in S : y <= x}) = k

\* the chunks cs are the chunks of some start offsets of ss, in increasing
\* order of the offsets
InStartOrder(cs, ss) ==
    \E S \in SUBSET (1..Len(ss)) :
        /\ Cardinality(S) = Len(cs)
        /\ \A k \in 1..Len(cs) : cs[k] = ChunkAt(text, chunk_size, ss[Kth(S, k)])

\* C19: for overlap < chunk_size, the result with max_chunks = m is exactly
\* the first min(m, n) elements of the n-element result obtained with an
\* unlimited max_chunks, and the chunks are in increasing order of their
\* start offsets.
C19_TruncationDropsTrailing ==
    (cpc = "done" /\ overlap < chunk_size) =>
        LET full == split_into_chunks(text, Unlimited(text))
        IN  /\ Len(result) = Min(max_chunks, Len(full))
            /\ result = PySlice(full, 0, max_chunks)
            /\ InStartOrder(result, starts)

\* a call was truncated to a non-empty result after an early stop
C19_Witness ==
    /\ cpc = "done"
    /\ overlap < chunk_size
    /\ max_chunks >= 1
    /\ Len(result) = max_chunks
    /\ Len(split_into_chunks(text, Unlimited(text))) > max_chunks
    /\ batch_idx + batch_size < Len(starts)

\* the steps of one answer_question call, by the place the call is at: from
\* RANKED the call returns on an early fallback match or goes on to the model,
\* from NEURAL_ATTEMPTED to the acceptance test, and from there to DONE; a
\* call may end by raising instead of returning
AnswerStep ==
    \/ qpc = "call" /\ qpc' = "ranked"
    \/ qpc = "ranked" /\ qpc' \in {"neural", "done", "raised"}
    \/ qpc = "neural" /\ qpc' \in {"attempted", "raised"}
    \/ qpc = "attempted" /\ qpc' \in {"done", "raised"}
    \/ qpc \in {"done", "raised"} /\ qpc' = "call"

\* the fallback matcher is invoked in this step
FallbackInvoked == fb_calls' = fb_calls + 1

\* the QA model is invoked in this step
ModelInvoked == qa_calls' = qa_calls + 1

\* C20: every answer_question call goes RANKED -> NEURAL_ATTEMPTED ->
\* {ACCEPTED, FALLBACK_ATTEMPTED} -> DONE: ranking completes before any
\* fallback or model call, the QA model is invoked at most once, the fallback
\* after the model is invoked only once the model has returned a result that
\* fails the acceptance test, never after an accepted one, and the fallback
\* matcher runs at most twice per question.
C20_AnswerStateMachine ==
    /\ [](/\ qpc = "call" => (qa_calls = 0 /\ fb_calls = 0)
          /\ qa_calls <= 1
          /\ fb_calls <= 2
          /\ qpc = "attempted" => qa_calls = 1)
    /\ [][/\ AnswerStep
          /\ ModelInvoked => qpc = "neural"
          /\ FallbackInvoked => qpc \in {"ranked", "attempted"}
          /\ (FallbackInvoked /\ qpc = "attempted") => (qa_calls = 1 /\ ~ModelAccepted)
          /\ (qpc = "attempted" /\ ~ModelAccepted) => FallbackInvoked
          /\ (fb_calls' # fb_calls) => (FallbackInvoked \/ qpc' = "call")
          /\ (qa_calls' # qa_calls) => (ModelInvoked \/ qpc' = "call")]_vars

\* a call ran the fallback before the model and again after the model's
\* rejected result, and returned
C20_Witness ==
    /\ qpc = "done"
    /\ qa_calls = 1
    /\ fb_calls = 2
    /\ PreIntent(question)
    /\ ~ModelAccepted

\* the question takes the focus branch of extract_fallback_answer
FocusIntent == AnyIn({"focus", "subject", "about"}, question)

\* the candidate chunks the focus rules look at
SearchedIdx == 1..Min(FocusChunks, Len(doc))

\* the rules with a guard-passing match somewhere in the searched chunks
PassingRules == {r \in 1..Len(FocusConf) : \E i \in SearchedIdx : RulePasses(r, doc[i])}

\* the earliest of these rules in the list
EarliestRule == CHOOSE r \in PassingRules : \A o \in PassingRules : r <= o

\* the first searched chunk that rule r passes on
FirstChunkOf(r) ==
    CHOOSE i \in SearchedIdx :
        RulePasses(r, doc[i]) /\ \A j \in SearchedIdx : RulePasses(r, doc[j]) => i <= j

\* C21: in the subject/focus fallback, among all rules with a guard-passing
\* match somewhere in the first 3 candidate chunks, the returned answer and
\* confidence are those of the earliest such rule in the list; chunks beyond
\* the third are not searched.
C21_RuleOrderAcrossChunks ==
    (qpc = "fb_done" /\ FocusIntent /\ PassingRules # {}) =>
        /\ ret.kind = "match"
        /\ ret.score = FocusConf[EarliestRule]
        /\ ret.answer = RuleAnswer(EarliestRule, doc[FirstChunkOf(EarliestRule)])

\* sequence s without its k-th element
Without(s, k) == SubSeq(s, 1, k - 1) \o SubSeq(s, k + 1, Len(s))

\* sequence t is s, or s with one element put in somewhere
KeepsEntries(s, t) == t = s \/ \E k \in 1..Len(t) : Without(t, k) = s

\* analyze_document runs in this step
AnalysisRuns == analyze_calls' = analyze_calls + 1

\* C22: over any sequence of answer_question calls on one instance, with the
\* chunks of different documents or none and with calls that raise,
\* analyze_document runs at most once, in the first call with a non-empty
\* chunk list; self.focus_patterns gains at most one entry over the
\* instance's lifetime and no entry is ever removed or reordered.
C22_AnalysisRunsOnce ==
    /\ [](/\ analyze_calls <= 1
          /\ (had_chunks <=> analyze_calls = 1)
          /\ (analyzed <=> analyze_calls = 1)
          /\ Len(focus_patterns) <= Len(InitialFocusPatterns) + analyze_calls
          /\ KeepsEntries(InitialFocusPatterns, focus_patterns))
    /\ [][/\ (analyze_calls' # analyze_calls) => AnalysisRuns
          /\ AnalysisRuns => (qpc = "call" /\ doc # <<>> /\ ~had_chunks)
          /\ (qpc = "call" /\ doc # <<>> /\ ~had_chunks) => AnalysisRuns
          /\ (focus_patterns' # focus_patterns) => AnalysisRuns
          /\ KeepsEntries(focus_patterns, focus_patterns')]_vars

\* after calls without chunks and a call that learned a title, a call with
\* another document's chunks ended in the QA model raising, and the list has
\* the entry learned in the earlier call, not one of this document
C22_Witness ==
    /\ qpc = "raised"
    /\ ret = "ModelError"
    /\ analyze_calls = 1
    /\ doc # <<>>
    /\ Len(focus_patterns) = Len(InitialFocusPatterns) + 1
    /\ focus_patterns[1] # analyze_document(InitialFocusPatterns, doc[1])[1]
    /\ Tail(focus_patterns) = InitialFocusPatterns

\* every entry of cache c is still in cache d, with the same value
EntriesKept(c, d) == \A k \in DOMAIN c : k \in DOMAIN d /\ d[k] = c[k]

\* the running call asks for an embedding and the request fails
EmbeddingRequestFails ==
    /\ spc = "sem_call"
    /\ folder_path \notin DOMAIN embeddings_cache
    /\ summary_ok
    /\ ~embedding_ok

\* C23: the folder-embedding cache is append-only and holds only vectors:
\* after any sequence of _get_folder_embedding calls every stored entry is a
\* successfully computed embedding, no existing entry is overwritten or
\* removed, and a call whose embedding request failed leaves the cache
\* unchanged, so that the next request for that folder recomputes.
C23_CacheHoldsOnlyVectors ==
    /\ [](\A k \in DOMAIN embeddings_cache : embeddings_cache[k] = FolderVector(k))
    /\ [][/\ EntriesKept(embeddings_cache, embeddings_cache')
          /\ EmbeddingRequestFails => embeddings_cache' = embeddings_cache]_vars

====
